---- MODULE Spec2Model ----
(***************************************************************************)
(* Model of the live-score WebSocket server, in its two variants.          *)
(*                                                                         *)
(* main.go: one task per connection. serveWs registers the client in the   *)
(* hub, sends the initial state and starts handleMessages, whose loop      *)
(* reads commands, applies them to gameState under gameState.mu and        *)
(* broadcasts the marshalled state to every hub client under hub.mutex.    *)
(*                                                                         *)
(* The handler package (the simulator variant): Handler registers the      *)
(* connection, starts broadcastScoreUpdates and reads until the connection *)
(* fails; broadcastScoreUpdates changes its own score on every tick and    *)
(* writes it to every registered connection under mu.                      *)
(*                                                                         *)
(* Every statement that touches shared memory or the network is one step,  *)
(* so that TLC explores the interleavings of the goroutines.               *)
(***************************************************************************)
EXTENDS Integers, Sequences, FiniteSets, TLC

\* ------------------------------------------------------------------ bounds

\* Number of connections the server accepts in one run.
NConn == 2
\* Number of inbound messages read over all connections in one run.
MaxMsgs == 2

\* Number of ticks of the simulator's tickers in one run.
MaxTicks == 2

Conns == 1..NConn
\* The two programs of the repository: package main and package handler.
Variants == {"main", "handler"}
\* The value of a mutex nobody holds.
NoOne == 0

\* ------------------------------------------------------------------ state

VARIABLES
    gameState,    \* [ScoreA, ScoreB]: the shared score            (main.go:42)
    gsMu,         \* holder of gameState.mu, or NoOne               (main.go:24)
    clients,      \* hub.clients: the set of registered clients    (main.go:37)
    hubMu,        \* holder of hub.mutex, or NoOne                  (main.go:38)
    pc,           \* per connection: the statement its task is at
    payload,      \* per connection: bytes returned by ReadMessage (main.go:69)
    msg,          \* per connection: the decoded Message            (main.go:77)
    local,        \* per connection: scores loaded by the switch    (main.go:85)
    updatedState, \* per connection: initialState / updatedState    (main.go:104,128)
    seen,         \* per connection: clients its range loop visited (main.go:48)
    closed,       \* per connection: number of conn.Close() calls   (main.go:52,64)
    rx,           \* per connection: messages written to it successfully, in order
    nMsgs,        \* number of inbound messages read so far (bounded by MaxMsgs)
    cmdId,        \* per connection: number of the message being processed
    regState,     \* per connection: gameState when it was added to hub.clients
    startClients, \* per connection: hub.clients when its broadcast took the lock
    cntIncA,      \* number of increment-A commands applied so far
    onlyIncA,     \* TRUE while every command applied so far was increment A
    variant,      \* which of the two programs runs
    simPc,        \* per connection: where the simulator its Handler started is at
    simScore,     \* per simulator: homeScore, awayScore     (part_000:64-65)
    nTicks        \* number of ticks so far (bounded by MaxTicks)

vars == <<gameState, gsMu, clients, hubMu, pc, payload, msg, local, updatedState,
          seen, closed, rx, nMsgs, cmdId, regState, startClients, cntIncA, onlyIncA,
          variant, simPc, simScore, nTicks>>

\* ------------------------------------------------------------- data types

\* Message.Action and Message.Team as strings; "" is the zero value of a
\* field the JSON object does not carry.
Actions == {"increment", "decrement", "reset", "bogus"}
Teams == {"A", "B", ""}

\* What ReadMessage can return as payload: text that is no JSON object of
\* string fields, or a JSON object with any of the two fields.
Garbage == [json |-> FALSE, action |-> "", team |-> ""]
RawPayloads ==
    {Garbage} \cup [json : {TRUE}, action : Actions, team : Teams]

NoMessage == [Action |-> "", Team |-> ""]
NoState == [scoreA |-> 0, scoreB |-> 0]
NoLocal == [ScoreA |-> 0, ScoreB |-> 0]

\* json.Unmarshal(payload, &msg): err # nil for text that does not decode;
\* otherwise the fields present are copied and the others stay "".
UnmarshalOk(p) == p.json
Unmarshal(p) == [Action |-> p.action, Team |-> p.team]

\* json.Marshal(gameState): the two exported fields under their json tags;
\* the unexported mu is left out.
Marshal(gs) == [scoreA |-> gs.ScoreA, scoreB |-> gs.ScoreB]

\* The switch with a decrement that has no floor at 0.
ApplyCommandNoFloor(gs, m) ==
    CASE m.Action = "increment" ->
           IF m.Team = "A" THEN [gs EXCEPT !.ScoreA = gs.ScoreA + 1]
           ELSE IF m.Team = "B" THEN [gs EXCEPT !.ScoreB = gs.ScoreB + 1]
           ELSE gs
      [] m.Action = "decrement" ->
           IF m.Team = "A" THEN [gs EXCEPT !.ScoreA = gs.ScoreA - 1]
           ELSE IF m.Team = "B" THEN [gs EXCEPT !.ScoreB = gs.ScoreB - 1]
           ELSE gs
      [] m.Action = "reset" -> [ScoreA |-> 0, ScoreB |-> 0]
      [] OTHER -> gs

\* The switch with a decrement whose second branch does not test the team.
ApplyCommandAnyTeam(gs, m) ==
    CASE m.Action = "increment" ->
           IF m.Team = "A" THEN [gs EXCEPT !.ScoreA = gs.ScoreA + 1]
           ELSE IF m.Team = "B" THEN [gs EXCEPT !.ScoreB = gs.ScoreB + 1]
           ELSE gs
      [] m.Action = "decrement" ->
           IF m.Team = "A" /\ gs.ScoreA > 0 THEN [gs EXCEPT !.ScoreA = gs.ScoreA - 1]
           ELSE IF gs.ScoreB > 0 THEN [gs EXCEPT !.ScoreB = gs.ScoreB - 1]
           ELSE gs
      [] m.Action = "reset" -> [ScoreA |-> 0, ScoreB |-> 0]
      [] OTHER -> gs

\* The switch with a reset that clears ScoreA only.
ApplyCommandResetA(gs, m) ==
    CASE m.Action = "increment" ->
           IF m.Team = "A" THEN [gs EXCEPT !.ScoreA = gs.ScoreA + 1]
           ELSE IF m.Team = "B" THEN [gs EXCEPT !.ScoreB = gs.ScoreB + 1]
           ELSE gs
      [] m.Action = "decrement" ->
           IF m.Team = "A" /\ gs.ScoreA > 0 THEN [gs EXCEPT !.ScoreA = gs.ScoreA - 1]
           ELSE IF m.Team = "B" /\ gs.ScoreB > 0 THEN [gs EXCEPT !.ScoreB = gs.ScoreB - 1]
           ELSE gs
      [] m.Action = "reset" -> [gs EXCEPT !.ScoreA = 0]
      [] OTHER -> gs

\* The switch of handleMessages on the scores gs it reads.
ApplyCommand(gs, m) ==
    CASE m.Action = "increment" ->
           IF m.Team = "A" THEN [gs EXCEPT !.ScoreA = gs.ScoreA + 1]
           ELSE IF m.Team = "B" THEN [gs EXCEPT !.ScoreB = gs.ScoreB + 1]
           ELSE gs
      [] m.Action = "decrement" ->
           IF m.Team = "A" /\ gs.ScoreA > 0 THEN [gs EXCEPT !.ScoreA = gs.ScoreA - 1]
           ELSE IF m.Team = "B" /\ gs.ScoreB > 0 THEN [gs EXCEPT !.ScoreB = gs.ScoreB - 1]
           ELSE gs
      [] m.Action = "reset" -> [ScoreA |-> 0, ScoreB |-> 0]
      [] OTHER -> gs

\* ------------------------------------------------------------------- Init

Init ==
    /\ gameState = [ScoreA |-> 0, ScoreB |-> 0]
    /\ gsMu = NoOne
    /\ clients = {}
    /\ hubMu = NoOne
    /\ pc = [c \in Conns |-> "idle"]
    /\ payload = [c \in Conns |-> Garbage]
    /\ msg = [c \in Conns |-> NoMessage]
    /\ local = [c \in Conns |-> NoLocal]
    /\ updatedState = [c \in Conns |-> NoState]
    /\ seen = [c \in Conns |-> {}]
    /\ closed = [c \in Conns |-> 0]
    /\ rx = [c \in Conns |-> <<>>]
    /\ nMsgs = 0
    /\ cmdId = [c \in Conns |-> 0]
    /\ regState = [c \in Conns |-> NoLocal]
    /\ startClients = [c \in Conns |-> {}]
    /\ cntIncA = 0
    /\ onlyIncA = TRUE
    /\ variant \in Variants
    /\ simPc = [c \in Conns |-> "none"]
    /\ simScore = [c \in Conns |-> [home |-> 0, away |-> 0]]
    /\ nTicks = 0

\* ---------------------------------------------------------------- serveWs

net == <<payload, msg, local, nMsgs, cmdId>>
ghost == <<regState, startClients, cntIncA, onlyIncA>>
simulator == <<variant, simPc, simScore, nTicks>>

\* upgrader.Upgrade succeeds: the client is created.
Upgrade(c) ==
    /\ variant = "main"
    /\ pc[c] = "idle"
    /\ pc' = [pc EXCEPT ![c] = "ws_lock"]
    /\ UNCHANGED simulator
    /\ UNCHANGED <<gameState, gsMu, clients, hubMu, updatedState, seen, closed, rx, net, ghost>>

\* upgrader.Upgrade fails: serveWs logs and returns.
UpgradeFail(c) ==
    /\ variant = "main"
    /\ pc[c] = "idle"
    /\ pc' = [pc EXCEPT ![c] = "rejected"]
    /\ UNCHANGED simulator
    /\ UNCHANGED <<gameState, gsMu, clients, hubMu, updatedState, seen, closed, rx, net, ghost>>

\* hub.mutex.Lock()
ServeLock(c) ==
    /\ pc[c] = "ws_lock"
    /\ hubMu = NoOne
    /\ hubMu' = c
    /\ pc' = [pc EXCEPT ![c] = "ws_add"]
    /\ UNCHANGED simulator
    /\ UNCHANGED <<gameState, gsMu, clients, updatedState, seen, closed, rx, net, ghost>>

\* hub.clients[client] = true
ServeAdd(c) ==
    /\ pc[c] = "ws_add"
    /\ clients' = clients \cup {c}
    /\ regState' = [regState EXCEPT ![c] = gameState]
    /\ pc' = [pc EXCEPT ![c] = "ws_unlock"]
    /\ UNCHANGED simulator
    /\ UNCHANGED <<gameState, gsMu, hubMu, updatedState, seen, closed, rx, net,
                   startClients, cntIncA, onlyIncA>>

\* hub.mutex.Unlock()
ServeUnlock(c) ==
    /\ pc[c] = "ws_unlock"
    /\ hubMu' = NoOne
    /\ pc' = [pc EXCEPT ![c] = "ws_gslock"]
    /\ UNCHANGED simulator
    /\ UNCHANGED <<gameState, gsMu, clients, updatedState, seen, closed, rx, net, ghost>>

\* gameState.mu.Lock()
ServeStateLock(c) ==
    /\ pc[c] = "ws_gslock"
    /\ gsMu = NoOne
    /\ gsMu' = c
    /\ pc' = [pc EXCEPT ![c] = "ws_marshal"]
    /\ UNCHANGED simulator
    /\ UNCHANGED <<gameState, clients, hubMu, updatedState, seen, closed, rx, net, ghost>>

\* initialState, _ := json.Marshal(gameState)
ServeMarshal(c) ==
    /\ pc[c] = "ws_marshal"
    /\ updatedState' = [updatedState EXCEPT ![c] = Marshal(gameState)]
    /\ pc' = [pc EXCEPT ![c] = "ws_gsunlock"]
    /\ UNCHANGED simulator
    /\ UNCHANGED <<gameState, gsMu, clients, hubMu, seen, closed, rx, net, ghost>>

\* gameState.mu.Unlock()
ServeStateUnlock(c) ==
    /\ pc[c] = "ws_gsunlock"
    /\ gsMu' = NoOne
    /\ pc' = [pc EXCEPT ![c] = "ws_write"]
    /\ UNCHANGED simulator
    /\ UNCHANGED <<gameState, clients, hubMu, updatedState, seen, closed, rx, net, ghost>>

\* One message as a peer receives it: the JSON object body, with what
\* identifies the write that sent it (the task and the number of the inbound
\* message it answers; 0 for the initial state).
Delivery(kind, by, id, body) ==
    [kind |-> kind, by |-> by, id |-> id, body |-> body]

\* client.conn.WriteMessage(websocket.TextMessage, initialState) is called:
\* the write is in progress until it returns. serveWs holds no lock here.
ServeWriteBegin(c) ==
    /\ pc[c] = "ws_write"
    /\ pc' = [pc EXCEPT ![c] = "ws_writing"]
    /\ UNCHANGED simulator
    /\ UNCHANGED <<gameState, gsMu, clients, hubMu, updatedState, seen, closed, rx, net, ghost>>

\* WriteMessage returns; the error is dropped. A write on a closed
\* connection fails; on an open one the peer decides. Then:
\* go handleMessages(client).
ServeWrite(c) ==
    /\ pc[c] = "ws_writing"
    /\ \/ /\ closed[c] = 0
          /\ rx' = [rx EXCEPT ![c] = Append(@, Delivery("init", c, 0, updatedState[c]))]
       \/ /\ rx' = rx
    /\ pc' = [pc EXCEPT ![c] = "read"]
    /\ UNCHANGED simulator
    /\ UNCHANGED <<gameState, gsMu, clients, hubMu, updatedState, seen, closed, net, ghost>>

serveWs(c) ==
    \/ Upgrade(c)
    \/ UpgradeFail(c)
    \/ ServeLock(c)
    \/ ServeAdd(c)
    \/ ServeUnlock(c)
    \/ ServeStateLock(c)
    \/ ServeMarshal(c)
    \/ ServeStateUnlock(c)
    \/ ServeWriteBegin(c)
    \/ ServeWrite(c)

\* --------------------------------------------------------- handleMessages

\* _, payload, err := client.conn.ReadMessage(). The peer decides what
\* arrives: a message taken from Raws, or an error (it closed, or the
\* transport failed); an error is also what a connection closed by the
\* server ends with. err # nil: break, which runs the deferred function.
ReadMessage(c, Raws) ==
    /\ pc[c] = "read"
    /\ \/ /\ nMsgs < MaxMsgs
          /\ \E p \in Raws : payload' = [payload EXCEPT ![c] = p]
          /\ nMsgs' = nMsgs + 1
          /\ cmdId' = [cmdId EXCEPT ![c] = nMsgs + 1]
          /\ pc' = [pc EXCEPT ![c] = "unmarshal"]
       \/ /\ pc' = [pc EXCEPT ![c] = "defer_lock"]
          /\ UNCHANGED <<payload, nMsgs, cmdId>>
    /\ UNCHANGED simulator
    /\ UNCHANGED <<gameState, gsMu, clients, hubMu, msg, local, updatedState, seen,
                   closed, rx, ghost>>

\* The decode step with break in place of continue.
UnmarshalMessageBreak(c) ==
    /\ pc[c] = "unmarshal"
    /\ IF UnmarshalOk(payload[c])
       THEN /\ msg' = [msg EXCEPT ![c] = Unmarshal(payload[c])]
            /\ pc' = [pc EXCEPT ![c] = "gs_lock"]
            /\ UNCHANGED payload
       ELSE /\ pc' = [pc EXCEPT ![c] = "defer_lock"]
            /\ payload' = [payload EXCEPT ![c] = Garbage]
            /\ UNCHANGED msg
    /\ UNCHANGED simulator
    /\ UNCHANGED <<gameState, gsMu, clients, hubMu, local, updatedState, seen, closed,
                   rx, nMsgs, cmdId, ghost>>

\* if err := json.Unmarshal(payload, &msg); err != nil { log; continue }
UnmarshalMessage(c) ==
    /\ pc[c] = "unmarshal"
    /\ IF UnmarshalOk(payload[c])
       THEN /\ msg' = [msg EXCEPT ![c] = Unmarshal(payload[c])]
            /\ pc' = [pc EXCEPT ![c] = "gs_lock"]
            /\ UNCHANGED payload
       ELSE /\ pc' = [pc EXCEPT ![c] = "read"]
            /\ payload' = [payload EXCEPT ![c] = Garbage]
            /\ UNCHANGED msg
    /\ UNCHANGED simulator
    /\ UNCHANGED <<gameState, gsMu, clients, hubMu, local, updatedState, seen, closed,
                   rx, nMsgs, cmdId, ghost>>

\* The switch entered without waiting for gameState.mu.
StateLockNoExclusion(c) ==
    /\ pc[c] = "gs_lock"
    /\ gsMu' = c
    /\ pc' = [pc EXCEPT ![c] = "load"]
    /\ UNCHANGED simulator
    /\ UNCHANGED <<gameState, clients, hubMu, updatedState, seen, closed, rx, net, ghost>>

\* gameState.mu.Lock()
StateLock(c) ==
    /\ pc[c] = "gs_lock"
    /\ gsMu = NoOne
    /\ gsMu' = c
    /\ pc' = [pc EXCEPT ![c] = "load"]
    /\ UNCHANGED simulator
    /\ UNCHANGED <<gameState, clients, hubMu, updatedState, seen, closed, rx, net, ghost>>

\* The reads of the switch: gameState.ScoreA, gameState.ScoreB.
Load(c) ==
    /\ pc[c] = "load"
    /\ local' = [local EXCEPT ![c] = gameState]
    /\ pc' = [pc EXCEPT ![c] = "store"]
    /\ UNCHANGED simulator
    /\ UNCHANGED <<gameState, gsMu, clients, hubMu, updatedState, seen, closed, rx,
                   payload, msg, nMsgs, cmdId, ghost>>

\* The writes of the switch: ScoreA++, ScoreB--, ScoreA = 0, ... A field the
\* command does not assign keeps the value it has in memory.
Store(c) ==
    /\ pc[c] = "store"
    /\ LET new == ApplyCommand(local[c], msg[c])
           assigned(f) == new[f] # local[c][f] \/ msg[c].Action = "reset"
       IN gameState' =
            [ScoreA |-> IF assigned("ScoreA") THEN new.ScoreA ELSE gameState.ScoreA,
             ScoreB |-> IF assigned("ScoreB") THEN new.ScoreB ELSE gameState.ScoreB]
    /\ cntIncA' = IF msg[c].Action = "increment" /\ msg[c].Team = "A"
                  THEN cntIncA + 1 ELSE cntIncA
    /\ onlyIncA' = (onlyIncA /\ msg[c].Action = "increment" /\ msg[c].Team = "A")
    /\ pc' = [pc EXCEPT ![c] = "marshal"]
    /\ UNCHANGED simulator
    /\ UNCHANGED <<gsMu, clients, hubMu, updatedState, seen, closed, rx, net,
                   regState, startClients>>

\* updatedState, _ := json.Marshal(gameState)
MarshalState(c) ==
    /\ pc[c] = "marshal"
    /\ updatedState' = [updatedState EXCEPT ![c] = Marshal(gameState)]
    /\ pc' = [pc EXCEPT ![c] = "gs_unlock"]
    /\ UNCHANGED simulator
    /\ UNCHANGED <<gameState, gsMu, clients, hubMu, seen, closed, rx, net, ghost>>

\* handleMessages going on to hub.broadcast without gameState.mu.Unlock().
StateUnlockKeepsLock(c) ==
    /\ pc[c] = "gs_unlock"
    /\ gsMu' = gsMu
    /\ pc' = [pc EXCEPT ![c] = "hub_lock"]
    /\ UNCHANGED simulator
    /\ UNCHANGED <<gameState, clients, hubMu, updatedState, seen, closed, rx, net, ghost>>

\* handleMessages broadcasting only when the command changed a score.
StateUnlockSkipsNoOp(c) ==
    /\ pc[c] = "gs_unlock"
    /\ gsMu' = NoOne
    /\ pc' = [pc EXCEPT ![c] = IF ApplyCommand(local[c], msg[c]) = local[c]
                                THEN "read" ELSE "hub_lock"]
    /\ UNCHANGED simulator
    /\ UNCHANGED <<gameState, clients, hubMu, updatedState, seen, closed, rx, net, ghost>>

\* gameState.mu.Unlock()
StateUnlock(c) ==
    /\ pc[c] = "gs_unlock"
    /\ gsMu' = NoOne
    /\ pc' = [pc EXCEPT ![c] = "hub_lock"]
    /\ UNCHANGED simulator
    /\ UNCHANGED <<gameState, clients, hubMu, updatedState, seen, closed, rx, net, ghost>>

\* ---------------------------------------------------------- Hub.broadcast

\* A broadcast that leaves the sender out.
BroadcastLockSkipSender(c) ==
    /\ pc[c] = "hub_lock"
    /\ hubMu = NoOne
    /\ hubMu' = c
    /\ seen' = [seen EXCEPT ![c] = {c}]
    /\ startClients' = [startClients EXCEPT ![c] = clients]
    /\ pc' = [pc EXCEPT ![c] = "range"]
    /\ UNCHANGED simulator
    /\ UNCHANGED <<gameState, gsMu, clients, updatedState, closed, rx, net,
                   regState, cntIncA, onlyIncA>>

\* A broadcast that starts its range loop without waiting for h.mutex.
BroadcastLockNoExclusion(c) ==
    /\ pc[c] = "hub_lock"
    /\ hubMu' = c
    /\ seen' = [seen EXCEPT ![c] = {}]
    /\ startClients' = [startClients EXCEPT ![c] = clients]
    /\ pc' = [pc EXCEPT ![c] = "range"]
    /\ UNCHANGED simulator
    /\ UNCHANGED <<gameState, gsMu, clients, updatedState, closed, rx, net,
                   regState, cntIncA, onlyIncA>>

\* h.mutex.Lock(); defer h.mutex.Unlock(); the range loop starts.
BroadcastLock(c) ==
    /\ pc[c] = "hub_lock"
    /\ hubMu = NoOne
    /\ hubMu' = c
    /\ seen' = [seen EXCEPT ![c] = {}]
    /\ startClients' = [startClients EXCEPT ![c] = clients]
    /\ pc' = [pc EXCEPT ![c] = "range"]
    /\ UNCHANGED simulator
    /\ UNCHANGED <<gameState, gsMu, clients, updatedState, closed, rx, net,
                   regState, cntIncA, onlyIncA>>

\* A range loop that a failed write ends: the clients not yet visited are
\* not written.
BroadcastWriteAbortOnFailure(c) ==
    /\ pc[c] = "range"
    /\ \E d \in clients \ seen[c] :
          \/ /\ closed[d] = 0
             /\ seen' = [seen EXCEPT ![c] = @ \cup {d}]
             /\ rx' = [rx EXCEPT ![d] =
                         Append(@, Delivery("bcast", c, cmdId[c], updatedState[c]))]
             /\ UNCHANGED <<clients, closed>>
          \/ /\ seen' = [seen EXCEPT ![c] = clients]
             /\ closed' = [closed EXCEPT ![d] = @ + 1]
             /\ clients' = clients \ {d}
             /\ rx' = rx
    /\ UNCHANGED simulator
    /\ UNCHANGED <<gameState, gsMu, hubMu, pc, updatedState, net, ghost>>

\* A range loop that closes the client whose write failed and leaves it in
\* the map.
BroadcastWriteKeepsFailed(c) ==
    /\ pc[c] = "range"
    /\ \E d \in clients \ seen[c] :
          /\ seen' = [seen EXCEPT ![c] = @ \cup {d}]
          /\ \/ /\ closed[d] = 0
                /\ rx' = [rx EXCEPT ![d] =
                            Append(@, Delivery("bcast", c, cmdId[c], updatedState[c]))]
                /\ UNCHANGED <<clients, closed>>
             \/ /\ closed' = [closed EXCEPT ![d] = @ + 1]
                /\ clients' = clients
                /\ rx' = rx
    /\ UNCHANGED simulator
    /\ UNCHANGED <<gameState, gsMu, hubMu, pc, updatedState, net, ghost>>

\* A range loop that writes the shared state as it is at the time of the
\* write, not the payload marshalled after the command.
BroadcastWriteCurrentState(c) ==
    /\ pc[c] = "range"
    /\ \E d \in clients \ seen[c] :
          /\ seen' = [seen EXCEPT ![c] = @ \cup {d}]
          /\ \/ /\ closed[d] = 0
                /\ rx' = [rx EXCEPT ![d] =
                            Append(@, Delivery("bcast", c, cmdId[c], Marshal(gameState)))]
                /\ UNCHANGED <<clients, closed>>
             \/ /\ closed' = [closed EXCEPT ![d] = @ + 1]
                /\ clients' = clients \ {d}
                /\ rx' = rx
    /\ UNCHANGED simulator
    /\ UNCHANGED <<gameState, gsMu, hubMu, pc, updatedState, net, ghost>>

\* One iteration of "for client := range h.clients": the map yields an entry
\* d it has not yielded yet, in no particular order. WriteMessage succeeds,
\* or fails and the client is closed and deleted from the map.
BroadcastWrite(c) ==
    /\ pc[c] = "range"
    /\ \E d \in clients \ seen[c] :
          /\ seen' = [seen EXCEPT ![c] = @ \cup {d}]
          /\ \/ /\ closed[d] = 0
                /\ rx' = [rx EXCEPT ![d] =
                            Append(@, Delivery("bcast", c, cmdId[c], updatedState[c]))]
                /\ UNCHANGED <<clients, closed>>
             \/ /\ closed' = [closed EXCEPT ![d] = @ + 1]
                /\ clients' = clients \ {d}
                /\ rx' = rx
    /\ UNCHANGED simulator
    /\ UNCHANGED <<gameState, gsMu, hubMu, pc, updatedState, net, ghost>>

\* The range loop is over: the deferred h.mutex.Unlock() runs, broadcast
\* returns, the loop body of handleMessages ends and its variables with it.
BroadcastReturn(c) ==
    /\ pc[c] = "range"
    /\ clients \ seen[c] = {}
    /\ hubMu' = NoOne
    /\ seen' = [seen EXCEPT ![c] = {}]
    /\ payload' = [payload EXCEPT ![c] = Garbage]
    /\ msg' = [msg EXCEPT ![c] = NoMessage]
    /\ local' = [local EXCEPT ![c] = NoLocal]
    /\ updatedState' = [updatedState EXCEPT ![c] = NoState]
    /\ pc' = [pc EXCEPT ![c] = "read"]
    /\ UNCHANGED simulator
    /\ UNCHANGED <<gameState, gsMu, clients, closed, rx, nMsgs, cmdId, ghost>>

\* ------------------------------------- the deferred function of handleMessages

\* hub.mutex.Lock()
DeferLock(c) ==
    /\ pc[c] = "defer_lock"
    /\ hubMu = NoOne
    /\ hubMu' = c
    /\ pc' = [pc EXCEPT ![c] = "defer_delete"]
    /\ UNCHANGED simulator
    /\ UNCHANGED <<gameState, gsMu, clients, updatedState, seen, closed, rx, net, ghost>>

\* The deferred function without its delete.
DeferDeleteNothing(c) ==
    /\ pc[c] = "defer_delete"
    /\ pc' = [pc EXCEPT ![c] = "defer_unlock"]
    /\ UNCHANGED simulator
    /\ UNCHANGED <<gameState, gsMu, clients, hubMu, updatedState, seen, closed, rx, net, ghost>>

\* The deferred function emptying the registry in place of its delete.
DeferDeleteClearsRegistry(c) ==
    /\ pc[c] = "defer_delete"
    /\ clients' = {}
    /\ pc' = [pc EXCEPT ![c] = "defer_unlock"]
    /\ UNCHANGED simulator
    /\ UNCHANGED <<gameState, gsMu, hubMu, updatedState, seen, closed, rx, net, ghost>>

\* delete(hub.clients, client)
DeferDelete(c) ==
    /\ pc[c] = "defer_delete"
    /\ clients' = clients \ {c}
    /\ pc' = [pc EXCEPT ![c] = "defer_unlock"]
    /\ UNCHANGED simulator
    /\ UNCHANGED <<gameState, gsMu, hubMu, updatedState, seen, closed, rx, net, ghost>>

\* hub.mutex.Unlock()
DeferUnlock(c) ==
    /\ pc[c] = "defer_unlock"
    /\ hubMu' = NoOne
    /\ pc' = [pc EXCEPT ![c] = "defer_close"]
    /\ UNCHANGED simulator
    /\ UNCHANGED <<gameState, gsMu, clients, updatedState, seen, closed, rx, net, ghost>>

\* client.conn.Close(); the task ends.
DeferClose(c) ==
    /\ pc[c] = "defer_close"
    /\ closed' = [closed EXCEPT ![c] = @ + 1]
    /\ pc' = [pc EXCEPT ![c] = "done"]
    /\ UNCHANGED simulator
    /\ UNCHANGED <<gameState, gsMu, clients, hubMu, updatedState, seen, rx, net, ghost>>

handleMessages(c, Raws) ==
    \/ ReadMessage(c, Raws)
    \/ UnmarshalMessage(c)
    \/ StateLock(c)
    \/ Load(c)
    \/ Store(c)
    \/ MarshalState(c)
    \/ StateUnlock(c)
    \/ BroadcastLock(c)
    \/ BroadcastWrite(c)
    \/ BroadcastReturn(c)
    \/ DeferLock(c)
    \/ DeferDelete(c)
    \/ DeferUnlock(c)
    \/ DeferClose(c)

\* ------------------------------------------- Handler (the simulator variant)

\* What the handler package does not have: gameState and the locals of
\* handleMessages and serveWs.
mainOnly == <<gameState, gsMu, payload, msg, local, updatedState, regState,
              cntIncA, onlyIncA>>

\* The task of the simulator that the Handler of connection s started, as a
\* holder of mu.
SimTask(s) == 0 - s

\* upgrader.Upgrade succeeds; defer conn.Close().
HandlerUpgrade(c) ==
    /\ variant = "handler"
    /\ pc[c] = "idle"
    /\ pc' = [pc EXCEPT ![c] = "h_lock"]
    /\ UNCHANGED <<clients, hubMu, seen, closed, rx, nMsgs, cmdId, startClients>>
    /\ UNCHANGED <<mainOnly, simulator>>

\* upgrader.Upgrade fails: Handler logs and returns.
HandlerUpgradeFail(c) ==
    /\ variant = "handler"
    /\ pc[c] = "idle"
    /\ pc' = [pc EXCEPT ![c] = "rejected"]
    /\ UNCHANGED <<clients, hubMu, seen, closed, rx, nMsgs, cmdId, startClients>>
    /\ UNCHANGED <<mainOnly, simulator>>

\* mu.Lock()
HandlerLock(c) ==
    /\ pc[c] = "h_lock"
    /\ hubMu = NoOne
    /\ hubMu' = c
    /\ pc' = [pc EXCEPT ![c] = "h_add"]
    /\ UNCHANGED <<clients, seen, closed, rx, nMsgs, cmdId, startClients>>
    /\ UNCHANGED <<mainOnly, simulator>>

\* clients[conn] = true
HandlerAdd(c) ==
    /\ pc[c] = "h_add"
    /\ clients' = clients \cup {c}
    /\ pc' = [pc EXCEPT ![c] = "h_unlock"]
    /\ UNCHANGED <<hubMu, seen, closed, rx, nMsgs, cmdId, startClients>>
    /\ UNCHANGED <<mainOnly, simulator>>

\* mu.Unlock()
HandlerUnlock(c) ==
    /\ pc[c] = "h_unlock"
    /\ hubMu' = NoOne
    /\ pc' = [pc EXCEPT ![c] = "h_spawn"]
    /\ UNCHANGED <<clients, seen, closed, rx, nMsgs, cmdId, startClients>>
    /\ UNCHANGED <<mainOnly, simulator>>

\* go broadcastScoreUpdates(): homeScore := 0; awayScore := 0; the ticker.
HandlerSpawn(c) ==
    /\ pc[c] = "h_spawn"
    /\ simPc' = [simPc EXCEPT ![c] = "tick"]
    /\ simScore' = [simScore EXCEPT ![c] = [home |-> 0, away |-> 0]]
    /\ pc' = [pc EXCEPT ![c] = "h_read"]
    /\ UNCHANGED <<clients, hubMu, seen, closed, rx, nMsgs, cmdId, startClients>>
    /\ UNCHANGED <<mainOnly, variant, nTicks>>

\* if _, _, err := conn.ReadMessage(); err != nil {...}: a message is read
\* and dropped, or the read fails.
HandlerRead(c) ==
    /\ pc[c] = "h_read"
    /\ \/ /\ nMsgs < MaxMsgs
          /\ nMsgs' = nMsgs + 1
          /\ pc' = pc
       \/ /\ pc' = [pc EXCEPT ![c] = "h_dlock"]
          /\ nMsgs' = nMsgs
    /\ UNCHANGED <<clients, hubMu, seen, closed, rx, cmdId, startClients>>
    /\ UNCHANGED <<mainOnly, simulator>>

\* mu.Lock() after the read error
HandlerDeregLock(c) ==
    /\ pc[c] = "h_dlock"
    /\ hubMu = NoOne
    /\ hubMu' = c
    /\ pc' = [pc EXCEPT ![c] = "h_delete"]
    /\ UNCHANGED <<clients, seen, closed, rx, nMsgs, cmdId, startClients>>
    /\ UNCHANGED <<mainOnly, simulator>>

\* delete(clients, conn)
HandlerDelete(c) ==
    /\ pc[c] = "h_delete"
    /\ clients' = clients \ {c}
    /\ pc' = [pc EXCEPT ![c] = "h_dunlock"]
    /\ UNCHANGED <<hubMu, seen, closed, rx, nMsgs, cmdId, startClients>>
    /\ UNCHANGED <<mainOnly, simulator>>

\* mu.Unlock(); break
HandlerDeregUnlock(c) ==
    /\ pc[c] = "h_dunlock"
    /\ hubMu' = NoOne
    /\ pc' = [pc EXCEPT ![c] = "h_close"]
    /\ UNCHANGED <<clients, seen, closed, rx, nMsgs, cmdId, startClients>>
    /\ UNCHANGED <<mainOnly, simulator>>

\* Handler returns: the deferred conn.Close() runs.
HandlerClose(c) ==
    /\ pc[c] = "h_close"
    /\ closed' = [closed EXCEPT ![c] = @ + 1]
    /\ pc' = [pc EXCEPT ![c] = "done"]
    /\ UNCHANGED <<clients, hubMu, seen, rx, nMsgs, cmdId, startClients>>
    /\ UNCHANGED <<mainOnly, simulator>>

Handler(c) ==
    \/ HandlerUpgrade(c)
    \/ HandlerUpgradeFail(c)
    \/ HandlerLock(c)
    \/ HandlerAdd(c)
    \/ HandlerUnlock(c)
    \/ HandlerSpawn(c)
    \/ HandlerRead(c)
    \/ HandlerDeregLock(c)
    \/ HandlerDelete(c)
    \/ HandlerDeregUnlock(c)
    \/ HandlerClose(c)

\* -------------------------------------------------- broadcastScoreUpdates

\* fmt.Sprintf(`{"home": %d, "away": %d}`, homeScore, awayScore)
Sprintf(sc) == [home |-> sc.home, away |-> sc.away]

\* The ticker fires: time.Now().Unix()%2 picks the score to increment, and
\* score is formatted.
SimTick(s) ==
    /\ simPc[s] = "tick"
    /\ nTicks < MaxTicks
    /\ \/ simScore' = [simScore EXCEPT ![s].home = @ + 1]
       \/ simScore' = [simScore EXCEPT ![s].away = @ + 1]
    /\ nTicks' = nTicks + 1
    /\ cmdId' = [cmdId EXCEPT ![s] = nTicks + 1]
    /\ simPc' = [simPc EXCEPT ![s] = "lock"]
    /\ UNCHANGED <<clients, hubMu, pc, seen, closed, rx, nMsgs, startClients>>
    /\ UNCHANGED <<mainOnly, variant>>

\* mu.Lock(); the range loop starts.
SimLock(s) ==
    /\ simPc[s] = "lock"
    /\ hubMu = NoOne
    /\ hubMu' = SimTask(s)
    /\ seen' = [seen EXCEPT ![s] = {}]
    /\ startClients' = [startClients EXCEPT ![s] = clients]
    /\ simPc' = [simPc EXCEPT ![s] = "range"]
    /\ UNCHANGED <<clients, pc, closed, rx, nMsgs, cmdId>>
    /\ UNCHANGED <<mainOnly, variant, simScore, nTicks>>

\* One iteration of "for client := range clients": WriteMessage succeeds,
\* or fails and the client is closed and deleted from the map.
SimWrite(s) ==
    /\ simPc[s] = "range"
    /\ \E d \in clients \ seen[s] :
          /\ seen' = [seen EXCEPT ![s] = @ \cup {d}]
          /\ \/ /\ closed[d] = 0
                /\ rx' = [rx EXCEPT ![d] =
                            Append(@, Delivery("sim", s, cmdId[s], Sprintf(simScore[s])))]
                /\ UNCHANGED <<clients, closed>>
             \/ /\ closed' = [closed EXCEPT ![d] = @ + 1]
                /\ clients' = clients \ {d}
                /\ rx' = rx
    /\ UNCHANGED <<hubMu, pc, nMsgs, cmdId, startClients>>
    /\ UNCHANGED <<mainOnly, simulator>>

\* The range loop is over: mu.Unlock(), and the task waits for the next tick.
SimUnlock(s) ==
    /\ simPc[s] = "range"
    /\ clients \ seen[s] = {}
    /\ hubMu' = NoOne
    /\ seen' = [seen EXCEPT ![s] = {}]
    /\ simPc' = [simPc EXCEPT ![s] = "tick"]
    /\ UNCHANGED <<clients, pc, closed, rx, nMsgs, cmdId, startClients>>
    /\ UNCHANGED <<mainOnly, variant, simScore, nTicks>>

broadcastScoreUpdates(s) ==
    \/ SimTick(s)
    \/ SimLock(s)
    \/ SimWrite(s)
    \/ SimUnlock(s)

\* ------------------------------------------------------------------- Spec

Next ==
    \E c \in Conns :
        \/ serveWs(c)
        \/ handleMessages(c, RawPayloads)
        \/ Handler(c)
        \/ broadcastScoreUpdates(c)

Spec == Init /\ [][Next]_vars

\* The steps of connection c's task that the server takes by itself: all but
\* the arrival of the connection and the arrival of a message, which are up
\* to the peer. The Go scheduler runs every runnable goroutine, a mutex
\* that stays free is acquired, and a write returns (with or without error).
Progress(c) ==
    \/ ServeLock(c) \/ ServeAdd(c) \/ ServeUnlock(c)
    \/ ServeStateLock(c) \/ ServeMarshal(c) \/ ServeStateUnlock(c)
    \/ ServeWriteBegin(c) \/ ServeWrite(c)
    \/ UnmarshalMessage(c)
    \/ StateLock(c) \/ Load(c) \/ Store(c) \/ MarshalState(c) \/ StateUnlock(c)
    \/ BroadcastLock(c) \/ BroadcastWrite(c) \/ BroadcastReturn(c)
    \/ DeferLock(c) \/ DeferDelete(c) \/ DeferUnlock(c) \/ DeferClose(c)
    \/ HandlerLock(c) \/ HandlerAdd(c) \/ HandlerUnlock(c) \/ HandlerSpawn(c)
    \/ HandlerDeregLock(c) \/ HandlerDelete(c) \/ HandlerDeregUnlock(c)
    \/ HandlerClose(c)

\* The steps of a simulator: its ticker fires every five seconds, and the
\* rest is as for a connection's task.
SimProgress(s) == SimTick(s) \/ SimLock(s) \/ SimWrite(s) \/ SimUnlock(s)

\* The messages the peers send in the runs checked for liveness.
LivePayloads ==
    {Garbage, [json |-> TRUE, action |-> "increment", team |-> "A"]}

NextLive ==
    \E c \in Conns :
        \/ serveWs(c)
        \/ handleMessages(c, LivePayloads)
        \/ Handler(c)
        \/ broadcastScoreUpdates(c)

Fairness == \A c \in Conns : WF_vars(Progress(c)) /\ WF_vars(SimProgress(c))

FairSpec == Init /\ [][NextLive]_vars /\ Fairness

TypeOK ==
    /\ gameState \in [ScoreA : Int, ScoreB : Int]
    /\ gsMu \in Conns \cup {NoOne}
    /\ hubMu \in Conns \cup {NoOne} \cup {SimTask(s) : s \in Conns}
    /\ variant \in Variants
    /\ clients \subseteq Conns
    /\ \A c \in Conns : closed[c] \in 0..2

\* ------------------------------------------------------------ vocabulary

IsIncrementA(m) == m.Action = "increment" /\ m.Team = "A"

\* A decrement for a team whose score, in the scores gs, is 0.
DecrementAtZero(m, gs) ==
    /\ m.Action = "decrement"
    /\ \/ m.Team = "A" /\ gs.ScoreA = 0
       \/ m.Team = "B" /\ gs.ScoreB = 0

\* Connection c is past the switch and holds the payload of its command.
HasPayload(c) == pc[c] \in {"gs_unlock", "hub_lock", "range"}

\* The message connection c's broadcast delivers.
Broadcasting(c) == Delivery("bcast", c, cmdId[c], updatedState[c])

\* Connection d has been written the message e.
Received(d, e) == \E i \in 1..Len(rx[d]) : rx[d][i] = e

\* The clients the broadcast of c has written with success so far.
Served(c) == seen[c] \cap clients

\* How many of the messages written to d were broadcast for message number k.
DeliveredCount(d, k) ==
    Cardinality({i \in 1..Len(rx[d]) : rx[d][i].kind = "bcast" /\ rx[d][i].id = k})

\* ----------------------------------------------------------------- C1

\* C1: in every reachable state both scores are >= 0, and so are the two
\* scores of every payload marshalled for the initial send or a broadcast
\* and of every message written to a connection.
C1_ScoresNonNegative ==
    /\ gameState.ScoreA >= 0
    /\ gameState.ScoreB >= 0
    /\ \A c \in Conns :
          /\ updatedState[c].scoreA >= 0
          /\ updatedState[c].scoreB >= 0
          /\ \A i \in 1..Len(rx[c]) :
                \A key \in DOMAIN rx[c][i].body : rx[c][i].body[key] >= 0

\* A decrement of a score that is 0 has been applied and marshalled.
C1_Witness ==
    \E c \in Conns :
        /\ pc[c] = "gs_unlock"
        /\ DecrementAtZero(msg[c], local[c])
        /\ updatedState[c] = Marshal(gameState)

\* ----------------------------------------------------------------- C2

\* C2: no increment is lost: as long as the only commands applied are
\* increments for team A, ScoreA is the number of them (it started at 0) and
\* ScoreB is unchanged, whatever the interleaving of the connections.
C2_NoLostIncrement ==
    onlyIncA => gameState.ScoreA = cntIncA /\ gameState.ScoreB = 0

\* Every connection has an increment for A in flight at the same time, and
\* all of them have been applied.
C2_Witness ==
    /\ onlyIncA
    /\ cntIncA = NConn
    /\ \A c \in Conns : IsIncrementA(msg[c]) /\ pc[c] \in {"marshal", "gs_unlock", "hub_lock"}

\* ----------------------------------------------------------------- C3

\* The statements of serveWs up to and including its write.
Serving == {"ws_lock", "ws_add", "ws_unlock", "ws_gslock", "ws_marshal",
            "ws_gsunlock", "ws_write", "ws_writing"}

\* C3: the first message written to a connection is the initial snapshot of
\* serveWs: nothing is written to it while serveWs has not yet written the
\* snapshot, the snapshot is written once and first, and its scores are the
\* shared state at the moment the connection was added to the registry.
C3_SnapshotFirst ==
    \A c \in Conns :
        /\ pc[c] \in Serving => rx[c] = <<>>
        /\ \A i \in 1..Len(rx[c]) :
              rx[c][i].kind = "init" =>
                  /\ i = 1
                  /\ rx[c][i] = Delivery("init", c, 0, Marshal(regState[c]))

\* ----------------------------------------------------------------- C4

\* The message an increment for A makes the broadcast of c deliver.
C4_Payload(c) ==
    Delivery("bcast", c, cmdId[c],
             [scoreA |-> local[c].ScoreA + 1, scoreB |-> local[c].ScoreB])

\* C4: when a connection has applied an increment for team A, every
\* connection registered then is eventually written the broadcast of that
\* command, the sender included, unless it leaves the registry (its write
\* failed or it disconnected); and every connection that broadcast has
\* written received one and the same payload, whose scoreA is one more than
\* the score the increment was applied to.
C4_IncrementReachesAll ==
    /\ [](\A c \in Conns :
             IsIncrementA(msg[c]) /\ pc[c] = "range" =>
                 \A d \in Served(c) : Received(d, C4_Payload(c)))
    /\ \A c \in Conns : \A d \in Conns : \A k \in 1..MaxMsgs :
          (pc[c] = "hub_lock" /\ IsIncrementA(msg[c]) /\ cmdId[c] = k /\ d \in clients)
             ~> (\/ d \notin clients
                 \/ \E i \in 1..Len(rx[d]) :
                       rx[d][i].kind = "bcast" /\ rx[d][i].id = k /\ rx[d][i].by = c)

\* The broadcast of an increment for A has written its payload to every
\* connection, the sender included.
C4_Witness ==
    \E c \in Conns :
        /\ pc[c] = "range"
        /\ IsIncrementA(msg[c])
        /\ Served(c) = Conns
        /\ \A d \in Conns : Received(d, C4_Payload(c))

\* ----------------------------------------------------------------- C5

\* Connection d is written to, by the broadcast of c, in this step.
WrittenBy(c, d) == d \in seen'[c] \ seen[c]

\* The message the simulator s writes in its current tick.
Simulating(s) == Delivery("sim", s, cmdId[s], Sprintf(simScore[s]))

\* C5: in Hub.broadcast and in the loop of broadcastScoreUpdates alike, a
\* write that fails closes the connection and removes it from the registry;
\* a broadcast writes to registry members only and a closed connection is
\* never one again; and when the broadcast returns it has visited every
\* connection registered at its start and has written its payload to every
\* one of them whose write did not fail.
C5_WriteFailure ==
    [][\A c \in Conns :
          /\ \A d \in Conns :
                /\ WrittenBy(c, d) => d \in clients /\ closed[d] = 0
                /\ WrittenBy(c, d) /\ rx'[d] = rx[d] =>
                      closed'[d] > 0 /\ d \notin clients'
                /\ closed[d] > 0 => d \notin clients'
          /\ pc[c] = "range" /\ pc'[c] = "read" =>
                /\ seen[c] = startClients[c]
                /\ \A d \in Served(c) : Received(d, Broadcasting(c))
          /\ simPc[c] = "range" /\ simPc'[c] = "tick" =>
                /\ seen[c] = startClients[c]
                /\ \A d \in Served(c) : Received(d, Simulating(c))
      ]_vars

\* A broadcast has visited the two connections registered at its start: the
\* write to one failed and it is closed and removed, the other was written
\* the payload.
C5_Witness ==
    \E c \in Conns :
        /\ pc[c] = "range"
        /\ Cardinality(startClients[c]) = 2
        /\ seen[c] = startClients[c]
        /\ \E d, e \in startClients[c] :
              /\ d \notin clients /\ closed[d] = 1
              /\ e \in clients /\ Received(e, Broadcasting(c))

\* ----------------------------------------------------------------- C6

\* C6: a decrement for a team whose score is 0 leaves both scores as they
\* were, and the broadcast that follows carries the state as it was
\* immediately before the command: the payload marshalled equals that state,
\* and every client the broadcast has written got it once, with that state.
C6_DecrementAtZero ==
    \A c \in Conns :
        DecrementAtZero(msg[c], local[c]) =>
            /\ pc[c] = "marshal" => gameState = local[c]
            /\ HasPayload(c) => updatedState[c] = Marshal(local[c])
            /\ pc[c] = "range" =>
                  \A d \in Served(c) :
                      /\ Received(d, Delivery("bcast", c, cmdId[c], Marshal(local[c])))
                      /\ DeliveredCount(d, cmdId[c]) = 1

\* A decrement of B at 0, with ScoreA = 1, has been broadcast to a client.
C6_Witness ==
    \E c \in Conns :
        /\ pc[c] = "range"
        /\ msg[c] = [Action |-> "decrement", Team |-> "B"]
        /\ local[c] = [ScoreA |-> 1, ScoreB |-> 0]
        /\ Served(c) # {}

\* ----------------------------------------------------------------- C7

\* C7: a reset sets both scores to 0 whatever the scores were and whatever
\* team it carries, and the broadcast that follows carries scoreA = 0 and
\* scoreB = 0.
C7_Reset ==
    \A c \in Conns :
        msg[c].Action = "reset" =>
            /\ pc[c] = "marshal" => gameState = [ScoreA |-> 0, ScoreB |-> 0]
            /\ HasPayload(c) => updatedState[c] = [scoreA |-> 0, scoreB |-> 0]
            /\ pc[c] = "range" =>
                  \A d \in Served(c) :
                      Received(d, Delivery("bcast", c, cmdId[c], [scoreA |-> 0, scoreB |-> 0]))

\* A reset that carries no team, applied to a score of 1, has been broadcast.
C7_Witness ==
    \E c \in Conns :
        /\ pc[c] = "range"
        /\ msg[c] = [Action |-> "reset", Team |-> ""]
        /\ local[c].ScoreA = 1
        /\ Served(c) # {}

\* ----------------------------------------------------------------- C8

\* C8: when the message read does not decode, the step that handles it
\* leaves the scores, the registry, the connections and what every peer has
\* received as they are, starts no broadcast, and takes the loop back to
\* ReadMessage.
C8_DecodeFailure ==
    [][\A c \in Conns :
          pc[c] = "unmarshal" /\ ~UnmarshalOk(payload[c]) /\ pc'[c] # pc[c] =>
              /\ pc'[c] = "read"
              /\ UNCHANGED <<gameState, gsMu, clients, hubMu, closed, rx,
                             updatedState, seen>>
      ]_vars

\* Connection c read a message, is back at ReadMessage, open and registered,
\* and nobody was written a broadcast for that message: it did not decode.
C8_Witness ==
    \E c \in Conns :
        /\ pc[c] = "read"
        /\ nMsgs >= 1
        /\ cmdId[c] = nMsgs
        /\ c \in clients
        /\ closed[c] = 0
        /\ \A d \in Conns : \A i \in 1..Len(rx[d]) : rx[d][i].id # cmdId[c]

\* ----------------------------------------------------------------- C9

\* The statements that follow a failed read, in handleMessages (its
\* deferred function) and in Handler, and the end of the task.
Leaving == {"defer_lock", "defer_delete", "defer_unlock", "defer_close",
            "h_dlock", "h_delete", "h_dunlock", "h_close", "done"}

\* ReadMessage has just failed on connection c.
ReadFailed(c) == pc[c] \in {"defer_lock", "h_dlock"}

\* C9: once ReadMessage has failed, the connection's task only deregisters
\* and closes: it eventually ends, with the connection out of the registry
\* and its transport closed; it processes no further message, the ended
\* task never runs again and the connection is never again in the registry.
C9_Disconnect ==
    /\ \A c \in Conns :
          ReadFailed(c) ~> (pc[c] = "done" /\ c \notin clients /\ closed[c] > 0)
    /\ [](\A c \in Conns : pc[c] = "done" => c \notin clients /\ closed[c] > 0)
    /\ [][\A c \in Conns :
             /\ pc[c] \in Leaving => pc'[c] \in Leaving /\ msg'[c] = msg[c]
             /\ pc[c] = "done" => pc'[c] = "done" /\ c \notin clients'
         ]_vars

\* A connection that was served has ended after a read error, while the
\* other one is still registered.
C9_Witness ==
    \E c \in Conns :
        /\ pc[c] = "done"
        /\ closed[c] = 1
        /\ rx[c] # <<>>
        /\ clients = Conns \ {c}

\* ---------------------------------------------------------------- C10

\* C10: every write, the initial snapshot write of serveWs included, is to
\* a connection that is in the registry and has not been closed.
C10_WritesOnlyToMembers ==
    [][\A c \in Conns :
          /\ pc[c] = "ws_write" /\ pc'[c] = "ws_writing" => c \in clients /\ closed[c] = 0
          /\ \A d \in Conns : WrittenBy(c, d) => d \in clients /\ closed[d] = 0
      ]_vars

\* ---------------------------------------------------------------- C11

\* C11: the transport of a connection is closed at most once: a connection
\* that a broadcast closed after a failed write is not closed again when its
\* own read loop ends.
C11_ClosedAtMostOnce ==
    \A c \in Conns : closed[c] <= 1

\* ---------------------------------------------------------------- C12

\* The statements at which a task waits for the registry lock (hub.mutex,
\* mu) and for gameState.mu, and those at which a network write is in
\* progress or about to be made.
HubWait == {"ws_lock", "hub_lock", "defer_lock", "h_lock", "h_dlock"}
StateWait == {"ws_gslock", "gs_lock"}
Writing == {"ws_write", "ws_writing", "range"}

\* The task of connection c, or the simulator s, cannot take its next step
\* because the lock it asks for is held.
Blocked(c) ==
    \/ pc[c] \in HubWait /\ hubMu # NoOne
    \/ pc[c] \in StateWait /\ gsMu # NoOne
SimBlocked(s) == simPc[s] = "lock" /\ hubMu # NoOne

\* The task of connection c, or the simulator s, does not run: it has not
\* started, has ended, or is blocked.
Stopped(c) == pc[c] \in {"idle", "rejected", "done"} \/ Blocked(c)
SimStopped(s) == simPc[s] = "none" \/ SimBlocked(s)

\* C12: no task holds gameState.mu and the registry lock at the same time,
\* and no task holds gameState.mu while it writes to the network or waits
\* for the registry lock; so a lock that is held is held by a task that is
\* not itself blocked, and never are all tasks blocked on the two locks.
C12_NoLockCycle ==
    /\ \A c \in Conns :
          /\ ~(gsMu = c /\ hubMu = c)
          /\ gsMu = c => pc[c] \notin Writing \cup HubWait
          /\ hubMu = c => pc[c] \notin StateWait
          /\ gsMu = c \/ hubMu = c => ~Stopped(c)
          /\ hubMu = SimTask(c) => ~SimStopped(c)
    /\ (\E c \in Conns : Blocked(c) \/ SimBlocked(c)) =>
          (\E c \in Conns : ~Stopped(c) \/ ~SimStopped(c))

\* A broadcast scans the registry under the registry lock, after it gave
\* gameState.mu back, while a new registration is blocked on the registry
\* lock.
C12_Witness ==
    \E c, d \in Conns :
        /\ hubMu = c /\ pc[c] = "range" /\ gsMu # c
        /\ pc[d] = "ws_lock" /\ Blocked(d)

\* ---------------------------------------------------------------- C13

\* The simulator tasks that exist: a task of broadcastScoreUpdates never
\* returns, so every one that was started is there.
Simulators == {s \in Conns : simPc[s] # "none"}

\* C13: in the simulator variant at most one simulator task exists at any
\* time, however many connections were accepted or have disconnected.
C13_OneSimulator ==
    Cardinality(Simulators) <= 1

\* ---------------------------------------------------------------- C14

\* The range loop of connection c's Hub.broadcast, or of the simulator that
\* c's Handler started, is in progress before and after this step.
Scanning(c) ==
    \/ pc[c] = "range" /\ pc'[c] = "range"
    \/ simPc[c] = "range" /\ simPc'[c] = "range"

\* The range loop of c returns in this step.
ScanEnds(c) ==
    \/ pc[c] = "range" /\ pc'[c] = "read"
    \/ simPc[c] = "range" /\ simPc'[c] = "tick"

\* C14 as stated: while the scan of a broadcast is in progress the registry
\* is not modified; failed connections are removed after the scan only.
C14_RemovedAfterScan ==
    [][\A c \in Conns : Scanning(c) => clients' = clients]_vars

\* C14 as the code has it: while a scan is in progress nobody but the
\* scanning task modifies the registry and nothing is added to it; the
\* scanning task deletes a connection in the very iteration whose write to
\* it failed, and only then; the scan goes on over the rest, and when it
\* ends it has visited every connection registered at its start once, the
\* ones missing from the registry being those it closed and removed.
C14_RemovedDuringScan ==
    [][\A c \in Conns :
          /\ Scanning(c) =>
                /\ clients' \subseteq clients
                /\ \A d \in Conns :
                      /\ d \in clients \ clients' =>
                            /\ WrittenBy(c, d)
                            /\ rx'[d] = rx[d]
                            /\ closed'[d] = closed[d] + 1
                      /\ WrittenBy(c, d) /\ rx'[d] = rx[d] =>
                            d \in clients /\ d \notin clients'
                      /\ WrittenBy(c, d) => seen'[c] = seen[c] \cup {d}
          /\ ScanEnds(c) =>
                /\ seen[c] = startClients[c]
                /\ clients = clients'
                /\ clients \subseteq startClients[c]
                /\ \A d \in startClients[c] \ clients : closed[d] > 0
      ]_vars

\* In the middle of a scan: the connection visited first has been closed and
\* removed, and the other one is still to be visited.
C14_Witness ==
    \E c \in Conns :
        /\ pc[c] = "range" \/ simPc[c] = "range"
        /\ \E d \in seen[c] : d \notin clients /\ closed[d] > 0
        /\ clients \ seen[c] # {}

\* ---------------------------------------------------------------- C15

\* The shared state right after the command of connection c was applied to
\* the scores it found.
OwnMutation(c) == ApplyCommand(local[c], msg[c])

\* C15: the payload a command's broadcast writes is the shared state as it
\* was right after that command's own mutation: the state at the end of the
\* switch is the command applied to the scores it found, the payload
\* marshalled is that state, and it is what every client the broadcast has
\* written got, whatever other connections have applied since.
C15_PayloadIsOwnMutation ==
    \A c \in Conns :
        /\ pc[c] = "marshal" => gameState = OwnMutation(c)
        /\ HasPayload(c) => updatedState[c] = Marshal(OwnMutation(c))
        /\ pc[c] = "range" =>
              \A d \in Served(c) :
                  Received(d, Delivery("bcast", c, cmdId[c], Marshal(OwnMutation(c))))

\* A broadcast has written its payload to a client after another connection
\* changed the shared state: the payload written differs from the state now.
C15_Witness ==
    \E c \in Conns :
        /\ pc[c] = "range"
        /\ Served(c) # {}
        /\ updatedState[c] # Marshal(gameState)
        /\ \A d \in Served(c) : Received(d, Broadcasting(c))

\* ---------------------------------------------------------------- C16

\* A decoded command that no branch of the switch applies: its action is
\* none of the three, or it is an increment or decrement for no team.
NoOpCommand(m) ==
    \/ m.Action \notin {"increment", "decrement", "reset"}
    \/ m.Action \in {"increment", "decrement"} /\ m.Team \notin {"A", "B"}

\* The statements of the loop body between the decoding of a command and the
\* return of its broadcast, and the statement that follows each of them.
InCommand == {"gs_lock", "load", "store", "marshal", "gs_unlock", "hub_lock", "range"}
AfterStatement(p) ==
    CASE p = "gs_lock" -> "load"
      [] p = "load" -> "store"
      [] p = "store" -> "marshal"
      [] p = "marshal" -> "gs_unlock"
      [] p = "gs_unlock" -> "hub_lock"
      [] p = "hub_lock" -> "range"
      [] p = "range" -> "read"

\* C16: a decoded command with an unknown action, or an increment or
\* decrement for a team other than A and B, leaves both scores as they are
\* and is followed by one broadcast of the current state; and every decoded
\* command is followed by exactly one broadcast: from the decoding the loop
\* body goes statement by statement to Hub.broadcast and back to
\* ReadMessage, a broadcast starts for a decoded command only, and when it
\* returns every client it has written got the command's payload once.
C16_OneBroadcastPerCommand ==
    /\ [](\A c \in Conns :
             pc[c] \in InCommand /\ NoOpCommand(msg[c]) =>
                 /\ pc[c] = "marshal" => gameState = local[c]
                 /\ HasPayload(c) => updatedState[c] = Marshal(local[c])
                 /\ pc[c] = "range" =>
                       \A d \in Served(c) :
                           Received(d, Delivery("bcast", c, cmdId[c], Marshal(local[c]))))
    /\ [](\A d \in Conns : \A k \in 1..MaxMsgs : DeliveredCount(d, k) <= 1)
    /\ [][\A c \in Conns :
             /\ pc[c] = "unmarshal" /\ UnmarshalOk(payload[c]) /\ pc'[c] # pc[c] =>
                   pc'[c] = "gs_lock"
             /\ pc[c] \in InCommand /\ pc'[c] # pc[c] =>
                   pc'[c] = AfterStatement(pc[c])
             /\ pc'[c] = "range" /\ pc[c] # "range" =>
                   pc[c] = "hub_lock" /\ UnmarshalOk(payload[c])
             /\ pc[c] = "store" /\ pc'[c] = "marshal" /\ NoOpCommand(msg[c]) =>
                   gameState' = gameState
             /\ pc[c] = "range" /\ pc'[c] = "read" =>
                   \A d \in Served(c) : DeliveredCount(d, cmdId[c]) = 1
         ]_vars

\* A command with an unknown action, applied when ScoreA was 1, has been
\* broadcast to a client and ScoreA is still 1.
C16_Witness ==
    \E c \in Conns :
        /\ pc[c] = "range"
        /\ msg[c].Action = "bogus"
        /\ local[c].ScoreA = 1
        /\ gameState.ScoreA = 1
        /\ Served(c) # {}

\* ---------------------------------------------------------------- C17

\* This step is a failure on connection c or its handling: its ReadMessage
\* returns an error, its message does not decode, a write to it fails (in a
\* broadcast or in serveWs), or its task runs a statement that follows the
\* failed read.
FailureOn(c) ==
    \/ pc[c] \in {"read", "h_read"} /\ pc'[c] \in {"defer_lock", "h_dlock"}
    \/ pc[c] = "unmarshal" /\ ~UnmarshalOk(payload[c]) /\ pc'[c] # pc[c]
    \/ \E b \in Conns : WrittenBy(b, c) /\ rx'[c] = rx[c]
    \/ pc[c] = "ws_writing" /\ pc'[c] = "read" /\ rx'[c] = rx[c]
    \/ pc[c] \in Leaving /\ pc'[c] # pc[c]

\* This step leaves connection d as it is: as open and as registered as it
\* was, its task where it was with the command it was processing, and what
\* it has been written.
Untouched(d) ==
    /\ closed'[d] = closed[d]
    /\ d \in clients <=> d \in clients'
    /\ pc'[d] = pc[d]
    /\ msg'[d] = msg[d]
    /\ updatedState'[d] = updatedState[d]
    /\ rx'[d] = rx[d]

\* C17: a connection is closed, or removed from the registry, only by its
\* own task after its read failed or by the broadcast whose write to it
\* failed; and a read error, a decode error or a write error on connection c,
\* and what c's task does after it, leave every other connection open,
\* registered and where it was in its processing, and the scores unchanged.
C17_FailureIsLocal ==
    [][\A d \in Conns :
          /\ closed'[d] # closed[d] \/ (d \in clients /\ d \notin clients') =>
                \/ pc[d] \in Leaving /\ pc'[d] # pc[d]
                \/ \E b \in Conns : WrittenBy(b, d) /\ rx'[d] = rx[d]
          /\ \A c \in Conns \ {d} :
                FailureOn(c) => Untouched(d) /\ gameState' = gameState
      ]_vars

\* The write of d's broadcast to c has failed and c's read has failed after
\* it: c is closed and out of the registry, d is open, registered and goes
\* on with its broadcast.
C17_Witness ==
    \E c, d \in Conns :
        /\ c # d
        /\ closed[c] = 1 /\ c \notin clients /\ pc[c] = "defer_lock"
        /\ pc[d] = "range" /\ c \in seen[d]
        /\ d \in clients /\ closed[d] = 0

\* ---------------------------------------------------------------- C18

\* The statements executed under gameState.mu.
Critical == {"load", "store", "marshal", "gs_unlock", "ws_marshal", "ws_gsunlock"}

\* The body of the last message written to connection d.
LastBody(d) == rx[d][Len(rx[d])].body

\* C18 (the order of mutations): the mutations of the scores are totally
\* ordered: at most one task is in a critical section of gameState.mu, and a
\* command is applied to the scores as they are when it is applied, that is,
\* to the result of the mutation before it. That the broadcasts do not
\* follow this order is the reachable state C18_Witness.
C18_MutationsOrdered ==
    /\ \A c \in Conns : pc[c] \in Critical => gsMu = c
    /\ Cardinality({c \in Conns : pc[c] \in Critical}) <= 1
    /\ \A c \in Conns : pc[c] = "store" => local[c] = gameState

\* Two connections have each sent an increment for A and all commands are
\* processed: the scores are 2:0, and a registered client was written the
\* payload of the second mutation (2:0) first and that of the first (1:0)
\* last, so the last payload it received is not the shared state.
C18_Witness ==
    /\ nMsgs = MaxMsgs
    /\ \A c \in Conns : pc[c] = "read"
    /\ onlyIncA /\ cntIncA = 2
    /\ gameState = [ScoreA |-> 2, ScoreB |-> 0]
    /\ \E d \in clients :
          /\ Len(rx[d]) >= 2
          /\ rx[d][Len(rx[d]) - 1].kind = "bcast"
          /\ rx[d][Len(rx[d]) - 1].body = [scoreA |-> 2, scoreB |-> 0]
          /\ rx[d][Len(rx[d])].kind = "bcast"
          /\ rx[d][Len(rx[d])].by # rx[d][Len(rx[d]) - 1].by
          /\ LastBody(d) = [scoreA |-> 1, scoreB |-> 0]
          /\ LastBody(d) # Marshal(gameState)

\* ---------------------------------------------------------------- C19

\* The statements that add a connection to the registry or delete it, in
\* serveWs, the deferred function of handleMessages, and Handler.
Registering == {"ws_add", "defer_delete", "h_add", "h_delete"}

\* The tasks whose range loop over the registry is in progress.
Scans == {c \in Conns : pc[c] = "range"}
SimScans == {s \in Conns : simPc[s] = "range"}

\* The numbers that identify a broadcast: that of the inbound message, or of
\* the tick, it was made for.
BroadcastIds == 1..(MaxMsgs + MaxTicks)

\* Connection d has been written the payload of broadcast k, and where in
\* the sequence of the messages written to it.
HasBroadcast(d, k) ==
    \E i \in 1..Len(rx[d]) : rx[d][i].kind # "init" /\ rx[d][i].id = k
Position(d, k) ==
    CHOOSE i \in 1..Len(rx[d]) : rx[d][i].kind # "init" /\ rx[d][i].id = k

\* C19: at most one scan of the registry is in progress at any time and the
\* scanning task holds the registry lock; no task is at a statement that
\* registers or deregisters a connection while a scan is in progress; and
\* two connections that were both written the payloads of the same two
\* broadcasts were written them in the same order.
C19_BroadcastsSerialized ==
    /\ Cardinality(Scans) + Cardinality(SimScans) <= 1
    /\ \A c \in Scans : hubMu = c
    /\ \A s \in SimScans : hubMu = SimTask(s)
    /\ Scans \cup SimScans # {} => \A d \in Conns : pc[d] \notin Registering
    /\ \A d, e \in Conns : \A j, k \in BroadcastIds :
          HasBroadcast(d, j) /\ HasBroadcast(d, k) /\ HasBroadcast(e, j) /\ HasBroadcast(e, k) =>
              (Position(d, j) < Position(d, k) <=> Position(e, j) < Position(e, k))

\* Two broadcasts by different connections have both been written to both
\* connections.
C19_Witness ==
    \E b, c \in Conns :
        /\ b # c
        /\ \A d \in Conns :
              /\ HasBroadcast(d, 1) /\ HasBroadcast(d, 2)
              /\ rx[d][Position(d, 1)].by = b
              /\ rx[d][Position(d, 2)].by = c
              /\ rx[d][Position(d, 1)].kind = "bcast"

\* ---------------------------------------------------------------- C20

\* The WriteMessage of serveWs on connection c has been called and has not
\* returned.
SnapshotWriteInProgress(c) == pc[c] = "ws_writing"

\* C20: at most one task writes to a given connection at a time: no
\* broadcast writes to a connection while the initial snapshot write of
\* serveWs on that connection is in progress.
C20_OneWriterPerConnection ==
    [][\A b, c \in Conns : WrittenBy(b, c) => ~SnapshotWriteInProgress(c)]_vars

====
